---- MODULE Spec2Model ----
(***************************************************************************)
(* Day 17 of guicostaarantes/advent-rust-2023 (src/d17/mod.rs): a          *)
(* Dijkstra-style search over (coordinate, direction, run-length) states   *)
(* of a grid of digit costs, run by run_part_1 (min_steps 1, max_steps 3)  *)
(* and run_part_2 (min_steps 4, max_steps 10).                             *)
(*                                                                         *)
(* Representation.  A usize is an Int; usize::MAX is written USIZE_MAX     *)
(* (-1, the same bits in two's complement).  An Option<T> is a sequence:   *)
(* <<>> is None and <<v>> is Some(v).  A char is a one-character string.   *)
(* The BinaryHeap is a bag of PathWithCost records: its Ord compares       *)
(* total_cost only, so pop may return any entry of least total_cost.       *)
(* The HashMaps are functions.                                             *)
(***************************************************************************)
EXTENDS Integers, Sequences, FiniteSets, Bags, TLC

VARIABLES
    input,              \* the trimmed input text, a sequence of lines of chars
    part,               \* 1: run_part_1 is running, 2: run_part_2
    pc,                 \* position in run_part_1 / run_part_2
    nodes,              \* Map.nodes
    min_steps,          \* Map.min_steps
    max_steps,          \* Map.max_steps
    unexplored_paths,   \* Map.unexplored_paths
    explored_paths,     \* Map.explored_paths
    destination_coords, \* the local destination_coords, an Option
    result,             \* the value run_part_N returns in Ok, an Option
    prev                \* the outcome of the previous run on a grid one cell cheaper

vars == <<input, part, pc, nodes, min_steps, max_steps, unexplored_paths,
          explored_paths, destination_coords, result, prev>>

----------------------------------------------------------------------------
(* Bounds of the inputs.                                                   *)

MaxDim == 5      \* a grid has at most MaxDim rows and MaxDim columns
MaxCells1 == 6   \* a grid given to run_part_1 has at most MaxCells1 cells
MaxCells2 == 10  \* a grid given to run_part_2 has at most MaxCells2 cells
MaxHeavy == 2    \* at most MaxHeavy cells differ from the cost 1
MaxCost == 2     \* a cell that differs costs 0 or MaxCost
MonoCells == 6   \* a grid that is run again with one cell raised has at most MonoCells cells
MonoHeavy == 1   \* and at most MonoHeavy cells that differ from the cost 1

USIZE_MAX == -1

----------------------------------------------------------------------------
(* Chars and digits.                                                       *)

DigitChars == <<"0", "1", "2", "3", "4", "5", "6", "7", "8", "9">>

\* to_digit off by one: the digit's place in "0123456789" counted from 1
to_digit_from_one(ch) ==
    IF \E i \in 1..10 : DigitChars[i] = ch
    THEN << CHOOSE i \in 1..10 : DigitChars[i] = ch >>
    ELSE << >>

\* char::to_digit(10)
to_digit(ch) ==
    IF \E i \in 1..10 : DigitChars[i] = ch
    THEN << (CHOOSE i \in 1..10 : DigitChars[i] = ch) - 1 >>
    ELSE << >>

Coordinate(x, y) == [x |-> x, y |-> y]

Directions == {"North", "West", "South", "East"}

\* single_step with North and South exchanged
single_step_swapped(c, dir) ==
    CASE dir = "South" -> Coordinate(IF c.x = 0 THEN USIZE_MAX ELSE c.x - 1, c.y)
      [] dir = "West"  -> Coordinate(c.x, IF c.y = 0 THEN USIZE_MAX ELSE c.y - 1)
      [] dir = "North" -> Coordinate(IF c.x = USIZE_MAX THEN USIZE_MAX ELSE c.x + 1, c.y)
      [] dir = "East"  -> Coordinate(c.x, IF c.y = USIZE_MAX THEN USIZE_MAX ELSE c.y + 1)

\* Coordinate::single_step
single_step(c, dir) ==
    CASE dir = "North" -> Coordinate(IF c.x = 0 THEN USIZE_MAX ELSE c.x - 1, c.y)
      [] dir = "West"  -> Coordinate(c.x, IF c.y = 0 THEN USIZE_MAX ELSE c.y - 1)
      [] dir = "South" -> Coordinate(IF c.x = USIZE_MAX THEN USIZE_MAX ELSE c.x + 1, c.y)
      [] dir = "East"  -> Coordinate(c.x, IF c.y = USIZE_MAX THEN USIZE_MAX ELSE c.y + 1)

\* Direction::opposite
opposite(dir) ==
    CASE dir = "North" -> "South"
      [] dir = "West"  -> "East"
      [] dir = "South" -> "North"
      [] dir = "East"  -> "West"

Path(coordinate, going_towards, going_towards_count) ==
    [coordinate |-> coordinate, going_towards |-> going_towards,
     going_towards_count |-> going_towards_count]

PathWithCost(total_cost, coordinate, going_towards, going_towards_count) ==
    [total_cost |-> total_cost, coordinate |-> coordinate,
     going_towards |-> going_towards, going_towards_count |-> going_towards_count]

\* impl From<&PathWithCost> for Path
PathFrom(value) ==
    Path(value.coordinate, value.going_towards, value.going_towards_count)

\* Path::add_cost
add_cost(self, cost) ==
    PathWithCost(cost, self.coordinate, self.going_towards, self.going_towards_count)

----------------------------------------------------------------------------
(* Map::try_from: every char that is a digit becomes a node at (line,      *)
(* column); the Err of a char that is no digit is dropped by the closure,  *)
(* so that char is skipped and the load succeeds.                          *)

try_from(value) ==
    LET keys == UNION { { Coordinate(i - 1, j - 1) :
                            j \in { k \in 1..Len(value[i]) : to_digit(value[i][k]) # << >> } } :
                        i \in 1..Len(value) }
    IN  [c \in keys |-> to_digit(value[c.x + 1][c.y + 1])[1]]

\* the origin entry seeded as going East
origin_path_east(origin) == PathWithCost(0, origin, "East", 0)

\* the origin entry charged the cost 1
origin_path_charged(origin) == PathWithCost(1, origin, "South", 0)

\* the origin entry of Map::set_origin
origin_path(origin) == PathWithCost(0, origin, "South", 0)

\* pop under an Ord without .reverse(): the entries of greatest total_cost
PopLargest(heap) ==
    { e \in BagToSet(heap) : \A f \in BagToSet(heap) : e.total_cost >= f.total_cost }

\* BinaryHeap::pop under impl Ord for PathWithCost: the entries pop may return
PopCandidates(heap) ==
    { e \in BagToSet(heap) : \A f \in BagToSet(heap) : e.total_cost <= f.total_cost }

\* the walk without `continue 'dir` on a coordinate that is no node: the tile
\* costs nothing and the walk goes on
RECURSIVE walk_unchecked(_, _, _, _, _)
walk_unchecked(nd, coordinate, dir, steps_to_walk, cost_to_add) ==
    IF steps_to_walk = 0
    THEN [in_bounds |-> TRUE, coordinate |-> coordinate, cost_to_add |-> cost_to_add]
    ELSE LET c == single_step(coordinate, dir)
         IN  walk_unchecked(nd, c, dir, steps_to_walk - 1,
                            cost_to_add + (IF c \in DOMAIN nd THEN nd[c] ELSE 0))

\* the walk with cost_to_add assigned (=) where the code accumulates (+=)
RECURSIVE walk_last_tile(_, _, _, _, _)
walk_last_tile(nd, coordinate, dir, steps_to_walk, cost_to_add) ==
    IF steps_to_walk = 0
    THEN [in_bounds |-> TRUE, coordinate |-> coordinate, cost_to_add |-> cost_to_add]
    ELSE LET c == single_step(coordinate, dir)
         IN  IF c \in DOMAIN nd
             THEN walk_last_tile(nd, c, dir, steps_to_walk - 1, nd[c])
             ELSE [in_bounds |-> FALSE, coordinate |-> c, cost_to_add |-> cost_to_add]

\* the inner loop of explore_smaller_cost_path: steps_to_walk steps from
\* coordinate towards dir, summing the cost of each tile entered
RECURSIVE walk(_, _, _, _, _)
walk(nd, coordinate, dir, steps_to_walk, cost_to_add) ==
    IF steps_to_walk = 0
    THEN [in_bounds |-> TRUE, coordinate |-> coordinate, cost_to_add |-> cost_to_add]
    ELSE LET c == single_step(coordinate, dir)
         IN  IF c \in DOMAIN nd
             THEN walk(nd, c, dir, steps_to_walk - 1, cost_to_add + nd[c])
             ELSE [in_bounds |-> FALSE, coordinate |-> c, cost_to_add |-> cost_to_add]

\* steps_to_walk that commits to min steps in the direction of travel too
steps_always_min(path_to_explore, dir, min) == min

\* steps_to_walk of explore_smaller_cost_path
steps_to_walk(path_to_explore, dir, min) ==
    IF path_to_explore.going_towards = dir THEN 1 ELSE min

\* new_path.going_towards_count that starts a turn at 1 whatever was walked
new_count_turn_one(path_to_explore, dir, min) ==
    IF path_to_explore.going_towards = dir
    THEN path_to_explore.going_towards_count + 1
    ELSE 1

\* new_path.going_towards_count that does not count the step straight on
new_count_kept(path_to_explore, dir, min) ==
    IF path_to_explore.going_towards = dir
    THEN path_to_explore.going_towards_count
    ELSE min

\* new_path.going_towards_count of explore_smaller_cost_path
new_count(path_to_explore, dir, min) ==
    IF path_to_explore.going_towards = dir
    THEN path_to_explore.going_towards_count + 1
    ELSE min

\* the 'dir loop with no direction skipped
dirs_all(path_to_explore) == Directions

\* the 'dir loop skipping the direction of travel in place of its opposite
dirs_not_straight(path_to_explore) ==
    { dir \in Directions : path_to_explore.going_towards # dir }

\* the directions the 'dir loop does not skip as going back
dirs_allowed(path_to_explore) ==
    { dir \in Directions : opposite(path_to_explore.going_towards) # dir }

\* one pass of the 'dir loop body up to new_path: whether the walk stayed in
\* bounds, the new path and the cost of the tiles walked
try_dir(nd, path_to_explore, dir, min) ==
    LET w == walk(nd, path_to_explore.coordinate, dir,
                  steps_to_walk(path_to_explore, dir, min), 0)
    IN  [in_bounds |-> w.in_bounds,
         new_path |-> Path(w.coordinate, dir, new_count(path_to_explore, dir, min)),
         cost_to_add |-> w.cost_to_add]

\* the push condition without the max_steps test
push_allowed_any_count(explored, new_path, max) ==
    new_path \notin DOMAIN explored

\* the condition under which new_path is pushed
push_allowed(explored, new_path, max) ==
    /\ new_path \notin DOMAIN explored
    /\ new_path.going_towards_count <= max

\* the 'dir loop pushing each new path at cost_to_add alone, the cost of the
\* popped path left out
pushes_unsummed(nd, explored, path_to_explore, cost, min, max) ==
    { add_cost(t.new_path, t.cost_to_add) :
        t \in { u \in { try_dir(nd, path_to_explore, dir, min) :
                          dir \in dirs_allowed(path_to_explore) } :
                  u.in_bounds /\ push_allowed(explored, u.new_path, max) } }

\* the entries the 'dir loop pushes for a popped path with its cost
pushes(nd, explored, path_to_explore, cost, min, max) ==
    { add_cost(t.new_path, cost + t.cost_to_add) :
        t \in { u \in { try_dir(nd, path_to_explore, dir, min) :
                          dir \in dirs_allowed(path_to_explore) } :
                  u.in_bounds /\ push_allowed(explored, u.new_path, max) } }

\* explore_smaller_cost_path without the test that the popped path is already
\* explored: every popped entry is recorded and expanded
explore_again(nd, min, max, heap, explored, e) ==
    LET inserted == (PathFrom(e) :> e.total_cost) @@ explored
    IN  [unexplored_paths |->
             (heap (-) SetToBag({e}))
             (+) SetToBag(pushes(nd, inserted, PathFrom(e), e.total_cost, min, max)),
         explored_paths |-> inserted]

\* explore_smaller_cost_path leaving an already explored entry on the heap
\* (a peek in place of the pop)
explore_peeked(nd, min, max, heap, explored, e) ==
    IF PathFrom(e) \in DOMAIN explored
    THEN [unexplored_paths |-> heap, explored_paths |-> explored]
    ELSE LET inserted == (PathFrom(e) :> e.total_cost) @@ explored
         IN  [unexplored_paths |->
                  (heap (-) SetToBag({e}))
                  (+) SetToBag(pushes(nd, inserted, PathFrom(e), e.total_cost, min, max)),
              explored_paths |-> inserted]

\* explore_smaller_cost_path once entry e has been popped from heap (min_steps
\* and max_steps are set): the heap and the ledger it leaves
explore_popped(nd, min, max, heap, explored, e) ==
    IF PathFrom(e) \in DOMAIN explored
    THEN [unexplored_paths |-> heap (-) SetToBag({e}), explored_paths |-> explored]
    ELSE LET inserted == (PathFrom(e) :> e.total_cost) @@ explored
         IN  [unexplored_paths |->
                  (heap (-) SetToBag({e}))
                  (+) SetToBag(pushes(nd, inserted, PathFrom(e), e.total_cost, min, max)),
              explored_paths |-> inserted]

\* the loop of run_part_N with pop returning one fixed entry among those of
\* least cost: the ledger when explore_smaller_cost_path returns true
RECURSIVE run_loop(_, _, _, _, _)
run_loop(nd, min, max, heap, explored) ==
    IF heap = EmptyBag THEN explored
    ELSE LET e == CHOOSE f \in PopCandidates(heap) : TRUE
             m == explore_popped(nd, min, max, heap, explored, e)
         IN  run_loop(nd, min, max, m.unexplored_paths, m.explored_paths)

\* the keys max_by may return: those of greatest x + y
destination_candidates(nd) ==
    { a \in DOMAIN nd : \A b \in DOMAIN nd : a.x + a.y >= b.x + b.y }

\* the costs the result is the min of
destination_costs(explored, destination) ==
    { explored[p] : p \in { q \in DOMAIN explored : q.coordinate = destination } }

\* Iterator::max in the place of min
RECURSIVE iter_max(_)
iter_max(S) ==
    IF S = {} THEN << >>
    ELSE LET v == CHOOSE v \in S : TRUE
             rest == iter_max(S \ {v})
         IN  IF rest = << >> \/ v >= rest[1] THEN <<v>> ELSE rest

\* Iterator::min
RECURSIVE iter_min(_)
iter_min(S) ==
    IF S = {} THEN << >>
    ELSE LET v == CHOOSE v \in S : TRUE
             rest == iter_min(S \ {v})
         IN  IF rest = << >> \/ v <= rest[1] THEN <<v>> ELSE rest

----------------------------------------------------------------------------
(* The inputs.                                                             *)

RectShapes(cells) ==
    { s \in (1..MaxDim) \X (1..MaxDim) : s[1] * s[2] <= cells }

CellsOf(s) == (0..s[1] - 1) \X (0..s[2] - 1)

AltCosts == {0, MaxCost}

\* the text of the grid of shape s that costs 1 everywhere but on the cells of alt
GridText(s, alt) ==
    [i \in 1..s[1] |->
        [j \in 1..s[2] |->
            DigitChars[(IF <<i - 1, j - 1>> \in DOMAIN alt THEN alt[<<i - 1, j - 1>>] ELSE 1) + 1]]]

GridsOf(s, heavy) ==
    { GridText(s, alt) :
        alt \in UNION { [H -> AltCosts] : H \in { K \in SUBSET CellsOf(s) : Cardinality(K) <= heavy } } }

RectInputs(cells, heavy) == UNION { GridsOf(s, heavy) : s \in RectShapes(cells) }

AllOnes(r, c) == GridText(<<r, c>>, << >>)

\* 2 rows of 5 columns: the cheap way along the first row is 4 steps in a row
CheapRow ==
    GridText(<<2, 5>>, (<<1, 0>> :> 9) @@ (<<1, 1>> :> 9) @@ (<<1, 2>> :> 9) @@ (<<1, 3>> :> 9))

\* 6 rows of 5 columns of cost 1, but for a 9 in the middle of the first and of
\* the last row
TwoNines == GridText(<<6, 5>>, (<<0, 2>> :> 9) @@ (<<5, 2>> :> 9))

\* texts that are no rectangular grid of digits
MalformedInputs ==
    { << >>,
      << <<"x">> >>,
      << <<"x", "1">>, <<"1", "1">> >>,
      << <<"1", "x">>, <<"1", "1">> >>,
      << <<"1", "1", "1">>, <<"1">> >>,
      << <<"1">>, <<"1", "1", "1">> >>,
      << <<"1", "1">>, << >>, <<"1", "1">> >> }

\* the calls: <<input, 1>> is run_part_1(input), <<input, 2>> is run_part_2(input)
Runs ==
    ((RectInputs(MaxCells1, MaxHeavy) \cup { AllOnes(3, 3), CheapRow } \cup MalformedInputs) \X {1})
    \cup ((RectInputs(MaxCells2, MaxHeavy) \cup { AllOnes(5, 5), TwoNines } \cup MalformedInputs) \X {2})

IsRectangular(value) ==
    /\ Len(value) >= 1
    /\ \A i \in 1..Len(value) :
          /\ Len(value[i]) = Len(value[1])
          /\ Len(value[i]) >= 1
          /\ \A j \in 1..Len(value[i]) :
                value[i][j] \in {"0", "1", "2", "3", "4", "5", "6", "7", "8", "9"}

----------------------------------------------------------------------------
(* run_part_1 and run_part_2, statement by statement.                      *)

Init ==
    /\ \E r \in Runs : input = r[1] /\ part = r[2]
    /\ pc = "try_from"
    /\ nodes = << >>
    /\ min_steps = << >>
    /\ max_steps = << >>
    /\ unexplored_paths = EmptyBag
    /\ explored_paths = << >>
    /\ destination_coords = << >>
    /\ result = << >>
    /\ prev = << >>

\* let mut map = Map::try_from(input.trim())?;
TryFrom ==
    /\ pc = "try_from"
    /\ nodes' = try_from(input)
    /\ min_steps' = << >>
    /\ max_steps' = << >>
    /\ unexplored_paths' = EmptyBag
    /\ explored_paths' = << >>
    /\ pc' = "set_origin"
    /\ UNCHANGED <<input, part, destination_coords, result, prev>>

\* map.set_origin(Coordinate { x: 0, y: 0 })?; the origin is a node
SetOriginOk ==
    /\ pc = "set_origin"
    /\ Coordinate(0, 0) \in DOMAIN nodes
    /\ unexplored_paths' = unexplored_paths (+) SetToBag({origin_path(Coordinate(0, 0))})
    /\ pc' = "set_steps"
    /\ UNCHANGED <<input, part, nodes, min_steps, max_steps, explored_paths,
                   destination_coords, result, prev>>

\* set_origin without the test that the origin is a node: the origin is seeded
\* and Ok(()) is returned
SetOriginUnchecked ==
    /\ pc = "set_origin"
    /\ Coordinate(0, 0) \notin DOMAIN nodes
    /\ unexplored_paths' = unexplored_paths (+) SetToBag({origin_path(Coordinate(0, 0))})
    /\ pc' = "set_steps"
    /\ UNCHANGED <<input, part, nodes, min_steps, max_steps, explored_paths,
                   destination_coords, result, prev>>

\* map.set_origin(Coordinate { x: 0, y: 0 })?; the origin is no node: run_part_N returns Err
SetOriginErr ==
    /\ pc = "set_origin"
    /\ Coordinate(0, 0) \notin DOMAIN nodes
    /\ pc' = "err"
    /\ UNCHANGED <<input, part, nodes, min_steps, max_steps, unexplored_paths,
                   explored_paths, destination_coords, result, prev>>

part_min_steps(p) == IF p = 1 THEN 1 ELSE 4

part_max_steps(p) == IF p = 1 THEN 3 ELSE 10

\* map.min_steps = Some(..); map.max_steps = Some(..); let destination_coords = ..
SetSteps ==
    /\ pc = "set_steps"
    /\ min_steps' = <<part_min_steps(part)>>
    /\ max_steps' = <<part_max_steps(part)>>
    /\ \E d \in destination_candidates(nodes) : destination_coords' = <<d>>
    /\ pc' = "loop"
    /\ UNCHANGED <<input, part, nodes, unexplored_paths, explored_paths, result, prev>>

\* explore_smaller_cost_path returning Ok(true) whatever the heap holds
ExploreEmptyEarly ==
    /\ pc = "loop"
    /\ pc' = "extract"
    /\ UNCHANGED <<input, part, nodes, min_steps, max_steps, unexplored_paths,
                   explored_paths, destination_coords, result, prev>>

\* explore_smaller_cost_path: the heap is empty, Ok(true), the loop breaks
ExploreEmpty ==
    /\ pc = "loop"
    /\ unexplored_paths = EmptyBag
    /\ pc' = "extract"
    /\ UNCHANGED <<input, part, nodes, min_steps, max_steps, unexplored_paths,
                   explored_paths, destination_coords, result, prev>>

\* explore_smaller_cost_path: the popped path is already explored, Ok(false)
ExploreSkip ==
    /\ pc = "loop"
    /\ \E e \in PopCandidates(unexplored_paths) :
          /\ PathFrom(e) \in DOMAIN explored_paths
          /\ unexplored_paths' =
                explore_popped(nodes, min_steps[1], max_steps[1],
                               unexplored_paths, explored_paths, e).unexplored_paths
          /\ explored_paths' =
                explore_popped(nodes, min_steps[1], max_steps[1],
                               unexplored_paths, explored_paths, e).explored_paths
    /\ UNCHANGED <<input, part, pc, nodes, min_steps, max_steps,
                   destination_coords, result, prev>>

\* explore_smaller_cost_path: the popped path is recorded and expanded, Ok(false)
ExploreExpand ==
    /\ pc = "loop"
    /\ min_steps # << >>
    /\ max_steps # << >>
    /\ \E e \in PopCandidates(unexplored_paths) :
          /\ PathFrom(e) \notin DOMAIN explored_paths
          /\ unexplored_paths' =
                explore_popped(nodes, min_steps[1], max_steps[1],
                               unexplored_paths, explored_paths, e).unexplored_paths
          /\ explored_paths' =
                explore_popped(nodes, min_steps[1], max_steps[1],
                               unexplored_paths, explored_paths, e).explored_paths
    /\ UNCHANGED <<input, part, pc, nodes, min_steps, max_steps,
                   destination_coords, result, prev>>

\* let result = ... .min().unwrap(); Ok(result)
ResultOk ==
    /\ pc = "extract"
    /\ iter_min(destination_costs(explored_paths, destination_coords[1])) # << >>
    /\ result' = iter_min(destination_costs(explored_paths, destination_coords[1]))
    /\ pc' = "done"
    /\ UNCHANGED <<input, part, nodes, min_steps, max_steps, unexplored_paths,
                   explored_paths, destination_coords, prev>>

\* let result = ... .min().unwrap(): min() is None and unwrap panics
ResultPanic ==
    /\ pc = "extract"
    /\ iter_min(destination_costs(explored_paths, destination_coords[1])) = << >>
    /\ pc' = "panic"
    /\ UNCHANGED <<input, part, nodes, min_steps, max_steps, unexplored_paths,
                   explored_paths, destination_coords, result, prev>>

Next ==
    \/ TryFrom
    \/ SetOriginOk
    \/ SetOriginErr
    \/ SetSteps
    \/ ExploreEmpty
    \/ ExploreSkip
    \/ ExploreExpand
    \/ ResultOk
    \/ ResultPanic

Spec == Init /\ [][Next]_vars

\* run_part_N is one sequential thread: while a step is possible the next
\* statement, or the next iteration of its loop, is executed
SpecLive == Init /\ [][Next]_vars /\ WF_vars(Next)

----------------------------------------------------------------------------
(* explore_smaller_cost_path called on a Map whose min_steps or max_steps  *)
(* is still None, as Map::try_from leaves them: the caller has seeded the  *)
(* origin and assigned at most one of the two fields.                      *)

\* the call that tests min_steps and max_steps before it pops: on the error
\* the heap and the ledger are as they were
explore_unset_untouched(heap, explored, e) ==
    [unexplored_paths |-> heap, explored_paths |-> explored]

\* explore_smaller_cost_path up to the `?` on min_steps / max_steps, for a
\* popped entry e that is not yet explored: the pop and the insert are done
explore_unset(heap, explored, e) ==
    [unexplored_paths |-> heap (-) SetToBag({e}),
     explored_paths |-> (PathFrom(e) :> e.total_cost) @@ explored]

\* the caller assigns min_steps or max_steps or neither, not both
SetSomeSteps ==
    /\ pc = "set_steps"
    /\ \E lo \in {<< >>, <<part_min_steps(part)>>}, hi \in {<< >>, <<part_max_steps(part)>>} :
          /\ lo = << >> \/ hi = << >>
          /\ min_steps' = lo
          /\ max_steps' = hi
    /\ pc' = "loop"
    /\ UNCHANGED <<input, part, nodes, unexplored_paths, explored_paths,
                   destination_coords, result, prev>>

\* explore_smaller_cost_path: the popped path is recorded, then min_steps or
\* max_steps is None and the call returns Err
ExploreUnset ==
    /\ pc = "loop"
    /\ min_steps = << >> \/ max_steps = << >>
    /\ \E e \in PopCandidates(unexplored_paths) :
          /\ PathFrom(e) \notin DOMAIN explored_paths
          /\ unexplored_paths' = explore_unset(unexplored_paths, explored_paths, e).unexplored_paths
          /\ explored_paths' = explore_unset(unexplored_paths, explored_paths, e).explored_paths
    /\ pc' = "unset"
    /\ UNCHANGED <<input, part, nodes, min_steps, max_steps,
                   destination_coords, result, prev>>

NextUnset ==
    \/ TryFrom
    \/ SetOriginOk
    \/ SetOriginErr
    \/ SetSomeSteps
    \/ ExploreUnset

SpecUnset == Init /\ [][NextUnset]_vars

----------------------------------------------------------------------------
(* Two calls of the same run_part_N, the second on the first's grid with   *)
(* one cell made more expensive.                                           *)

\* the texts that differ from value in one cell, which costs more
RaisedInputs(value) ==
    { [value EXCEPT ![i][j] = DigitChars[k]] :
        <<i, j, k>> \in { t \in (1..Len(value)) \X (1..Len(value[1])) \X (1..MaxCost + 2) :
                           to_digit(value[t[1]][t[2]])[1] < t[3] - 1 } }

MonoRuns == (RectInputs(MonoCells, MonoHeavy) \cup { << >> }) \X {1, 2}

InitMono ==
    /\ \E r \in MonoRuns : input = r[1] /\ part = r[2]
    /\ pc = "try_from"
    /\ nodes = << >>
    /\ min_steps = << >>
    /\ max_steps = << >>
    /\ unexplored_paths = EmptyBag
    /\ explored_paths = << >>
    /\ destination_coords = << >>
    /\ result = << >>
    /\ prev = << >>

\* the first call has ended; the same run_part_N is called on a raised grid
Rerun ==
    /\ pc \in {"done", "panic"}
    /\ prev = << >>
    /\ IsRectangular(input)
    /\ input' \in RaisedInputs(input)
    /\ prev' = << [pc |-> pc, result |-> result] >>
    /\ pc' = "try_from"
    /\ nodes' = << >>
    /\ min_steps' = << >>
    /\ max_steps' = << >>
    /\ unexplored_paths' = EmptyBag
    /\ explored_paths' = << >>
    /\ destination_coords' = << >>
    /\ result' = << >>
    /\ UNCHANGED part

NextMono ==
    \/ Next
    \/ Rerun

SpecMono == InitMono /\ [][NextMono]_vars

----------------------------------------------------------------------------
(* The cost the claims compare with: the least cost of a walk of unit      *)
(* steps over the grid, from its rules and not from the search.  A walk    *)
(* state is (cell, direction of the last step, length of the run that ends *)
(* there); a step never reverses, a run never exceeds hi, and a run ends   *)
(* (by a turn or by stopping) only when it is at least lo long.            *)

WalkState(c, d, r) == [c |-> c, d |-> d, r |-> r]

Delta(d) ==
    CASE d = "North" -> <<-1, 0>>
      [] d = "West"  -> <<0, -1>>
      [] d = "South" -> <<1, 0>>
      [] d = "East"  -> <<0, 1>>

Neighbour(c, d) == Coordinate(c.x + Delta(d)[1], c.y + Delta(d)[2])

Reverse(d) ==
    CASE d = "North" -> "South"
      [] d = "West"  -> "East"
      [] d = "South" -> "North"
      [] d = "East"  -> "West"
      [] OTHER -> "none"

\* the unit steps the rules allow from walk state s, each with the cost it reaches
WalkSteps(nd, lo, hi, s, cost) ==
    { <<WalkState(Neighbour(s.c, d), d, IF d = s.d THEN s.r + 1 ELSE 1),
        cost + nd[Neighbour(s.c, d)]>> :
      d \in { e \in Directions :
                /\ Neighbour(s.c, e) \in DOMAIN nd
                /\ e # Reverse(s.d)
                /\ (e = s.d => s.r + 1 <= hi)
                /\ (e # s.d /\ s.d # "none" => s.r >= lo) } }

SetMin(S) == CHOOSE v \in S : \A w \in S : v <= w

\* least costs of the walk states, by relaxing the states of work until none improves
RECURSIVE WalkRelax(_, _, _, _, _)
WalkRelax(nd, lo, hi, dist, work) ==
    IF work = {} THEN dist
    ELSE LET cands == UNION { WalkSteps(nd, lo, hi, s, dist[s]) : s \in work }
             better == { sc \in cands : sc[1] \notin DOMAIN dist \/ sc[2] < dist[sc[1]] }
             states == { sc[1] : sc \in better }
             newd == [s \in DOMAIN dist \cup states |->
                         IF s \in states
                         THEN SetMin({ sc[2] : sc \in { t \in better : t[1] = s } })
                         ELSE dist[s]]
         IN  WalkRelax(nd, lo, hi, newd, states)

WalkDist(nd, lo, hi, origin) ==
    WalkRelax(nd, lo, hi, (WalkState(origin, "none", 0) :> 0), {WalkState(origin, "none", 0)})

\* the least cost of a legal walk from origin to destination: <<v>>, or << >> when there is none
WalkMin(nd, lo, hi, origin, destination) ==
    LET dist == WalkDist(nd, lo, hi, origin)
        ends == { dist[s] : s \in { t \in DOMAIN dist :
                                      t.c = destination /\ (t.d = "none" \/ t.r >= lo) } }
    IN  IF ends = {} THEN << >> ELSE <<SetMin(ends)>>

\* the grid of a rectangular text of digits, read directly
GridOf(value) ==
    [c \in { Coordinate(i - 1, j - 1) : i \in 1..Len(value), j \in 1..Len(value[1]) } |->
        (CHOOSE k \in 1..10 : DigitChars[k] = value[c.x + 1][c.y + 1]) - 1]

BottomRight(value) == Coordinate(Len(value) - 1, Len(value[1]) - 1)

\* least costs of (cell, direction of the last step) on a grid whose only rule
\* is that a step does not reverse the one before it
RECURSIVE PlainRelax(_, _, _)
PlainRelax(nd, dist, work) ==
    IF work = {} THEN dist
    ELSE LET cands == UNION { { <<[c |-> Neighbour(s.c, d), d |-> d],
                                  dist[s] + nd[Neighbour(s.c, d)]>> :
                                d \in { e \in Directions :
                                          Neighbour(s.c, e) \in DOMAIN nd /\ e # Reverse(s.d) } } :
                              s \in work }
             better == { sc \in cands : sc[1] \notin DOMAIN dist \/ sc[2] < dist[sc[1]] }
             states == { sc[1] : sc \in better }
             newd == [s \in DOMAIN dist \cup states |->
                         IF s \in states
                         THEN SetMin({ sc[2] : sc \in { t \in better : t[1] = s } })
                         ELSE dist[s]]
         IN  PlainRelax(nd, newd, states)

\* the cost of an ordinary shortest path from origin to destination with no
\* immediate reversal (the destination is always reached: the grid is connected)
PlainMin(nd, origin, destination) ==
    LET dist == PlainRelax(nd, ([c |-> origin, d |-> "none"] :> 0), {[c |-> origin, d |-> "none"]})
    IN  SetMin({ dist[s] : s \in { t \in DOMAIN dist : t.c = destination } })

\* the cost of the n cells that follow c in direction d
RECURSIVE LineCost(_, _, _, _)
LineCost(nd, c, d, n) ==
    IF n = 0 THEN 0 ELSE nd[Neighbour(c, d)] + LineCost(nd, Neighbour(c, d), d, n - 1)

\* whether the n cells that follow c in direction d are all cells of the grid
LineInGrid(nd, c, d, n) ==
    \A k \in 1..n : Coordinate(c.x + k * Delta(d)[1], c.y + k * Delta(d)[2]) \in DOMAIN nd

\* the transitions out of the search state p, each with the cost it reaches:
\* one more step straight on while the run stays within hi, or a turn left or
\* right that commits to lo steps at once; never a reversal
StateSteps(nd, lo, hi, p, cost) ==
    { <<Path(Coordinate(p.coordinate.x + t[2] * Delta(t[1])[1],
                        p.coordinate.y + t[2] * Delta(t[1])[2]), t[1], t[3]),
        cost + LineCost(nd, p.coordinate, t[1], t[2])>> :
      t \in { u \in { <<d, IF d = p.going_towards THEN 1 ELSE lo,
                          IF d = p.going_towards THEN p.going_towards_count + 1 ELSE lo>> :
                        d \in Directions \ {Reverse(p.going_towards)} } :
                LineInGrid(nd, p.coordinate, u[1], u[2]) /\ u[3] <= hi } }

\* least costs of the search states, by relaxing the states of work until none improves
RECURSIVE StateRelax(_, _, _, _, _)
StateRelax(nd, lo, hi, dist, work) ==
    IF work = {} THEN dist
    ELSE LET cands == UNION { StateSteps(nd, lo, hi, p, dist[p]) : p \in work }
             better == { sc \in cands : sc[1] \notin DOMAIN dist \/ sc[2] < dist[sc[1]] }
             states == { sc[1] : sc \in better }
             newd == [q \in DOMAIN dist \cup states |->
                         IF q \in states
                         THEN SetMin({ sc[2] : sc \in { t \in better : t[1] = q } })
                         ELSE dist[q]]
         IN  StateRelax(nd, lo, hi, newd, states)

\* the least cumulative cost of every search state that sequences of
\* transitions reach from the origin state (origin, South, 0)
StateDist(nd, lo, hi, origin) ==
    StateRelax(nd, lo, hi, (Path(origin, "South", 0) :> 0), {Path(origin, "South", 0)})

\* a step of the loop that records a state and expands it
Expanding == pc = "loop" /\ DOMAIN explored_paths' # DOMAIN explored_paths

\* the state such a step records
Expanded == CHOOSE p \in DOMAIN explored_paths' : p \notin DOMAIN explored_paths

\* the entries such a step pushes
Pushed ==
    { e \in BagToSet(unexplored_paths') :
        CopiesIn(e, unexplored_paths') > CopiesIn(e, unexplored_paths) }

LongestSide(value) == IF Len(value) >= Len(value[1]) THEN Len(value) ELSE Len(value[1])

Returned == pc = "done"

Ended == pc \in {"done", "panic", "err"}

----------------------------------------------------------------------------
(* Claims.                                                                 *)

\* C1 (as claimed): on every rectangular grid of digits that has one, run_part_2
\* returns the least cost of a walk from the top-left to the bottom-right cell
\* that never reverses and whose every run, the first and the last included, is
\* 4 to 10 steps long.
C1_Part2IsLeastLegalWalk ==
    (Returned /\ part = 2 /\ IsRectangular(input)
        /\ WalkMin(GridOf(input), 4, 10, Coordinate(0, 0), BottomRight(input)) # << >>)
    => result = WalkMin(GridOf(input), 4, 10, Coordinate(0, 0), BottomRight(input))

\* C2: on every rectangular grid of digits, run_part_1 returns the least cost of
\* a walk from the top-left to the bottom-right cell that never reverses and
\* never takes more than 3 steps in a row in one direction; it returns nothing
\* only when there is no such walk.
C2_Part1IsLeastLegalWalk ==
    (Ended /\ part = 1 /\ IsRectangular(input)) =>
        /\ result = WalkMin(GridOf(input), 1, 3, Coordinate(0, 0), BottomRight(input))
        /\ Returned <=> result # << >>

C2_Witness ==
    /\ Returned /\ part = 1 /\ input = CheapRow
    /\ result = <<13>>

\* C3: once the loop has ended and a result is reported, the result is a cost
\* the ledger holds for the destination coordinate and no ledger entry at the
\* destination, of any direction and run-length, costs less.
C3_ResultIsLeastLedgerCostAtDestination ==
    Returned =>
        /\ \E p \in DOMAIN explored_paths :
              p.coordinate = destination_coords[1] /\ explored_paths[p] = result[1]
        /\ \A p \in DOMAIN explored_paths :
              p.coordinate = destination_coords[1] => result[1] <= explored_paths[p]

C3_Witness ==
    /\ Returned
    /\ \E p, q \in DOMAIN explored_paths :
          /\ p.coordinate = destination_coords[1]
          /\ q.coordinate = destination_coords[1]
          /\ explored_paths[p] < explored_paths[q]

\* C4 (as claimed): a search that ends with no ledger entry at the destination
\* ends in a returned value, never in a panic.
C4_UnreachableIsNotAPanic ==
    (pc \in {"extract", "done", "panic"}
        /\ destination_costs(explored_paths, destination_coords[1]) = {})
    => pc # "panic"

\* C5 (as claimed): on a grid of 2 rows and several columns run_part_2 records
\* no state at the destination and reports no cost.
C5_TwoRowsNotReachable ==
    (part = 2 /\ IsRectangular(input) /\ Len(input) = 2 /\ Len(input[1]) > 1
        /\ pc \in {"extract", "done", "panic"})
    => /\ destination_costs(explored_paths, destination_coords[1]) = {}
       /\ pc # "done"

\* C6: when the destination is the origin (a grid of one cell) the run returns
\* the cost 0, under both regimes and whatever the cell costs.
C6_OriginIsDestinationCostsZero ==
    (pc \in {"extract", "done", "panic"} /\ destination_coords = <<Coordinate(0, 0)>>)
    => /\ pc # "panic"
       /\ pc = "done" => result = <<0>>
       /\ iter_min(destination_costs(explored_paths, Coordinate(0, 0))) = <<0>>

C6_Witness ==
    /\ Returned /\ part = 2 /\ result = <<0>>
    /\ destination_coords = <<Coordinate(0, 0)>>
    /\ DOMAIN nodes = {Coordinate(0, 0)}
    /\ nodes[Coordinate(0, 0)] > 0

\* C7: on the 3x3 grid of cost 1 run_part_1 (1 to 3 steps) returns 4.
C7_ScenarioA ==
    (Ended /\ part = 1 /\ input = AllOnes(3, 3)) =>
        /\ result = <<4>>
        /\ destination_coords = <<Coordinate(2, 2)>>

C7_Witness ==
    Returned /\ part = 1 /\ input = AllOnes(3, 3) /\ result = <<4>>

\* C8: on the 5x5 grid of cost 1 run_part_2 (4 to 10 steps) returns 8.
C8_ScenarioB ==
    (Ended /\ part = 2 /\ input = AllOnes(5, 5)) =>
        /\ result = <<8>>
        /\ destination_coords = <<Coordinate(4, 4)>>

C8_Witness ==
    Returned /\ part = 2 /\ input = AllOnes(5, 5) /\ result = <<8>>

\* C9: with the regime fixed, when a grid and the same grid with one cell made
\* more expensive both get a cost reported, the cost reported on the second is
\* not less than the one reported on the first (and a destination reached on
\* the first is reached on the second).
C9_Monotonicity ==
    (Ended /\ prev # << >> /\ prev[1].pc = "done") =>
        /\ Returned
        /\ result[1] >= prev[1].result[1]

C9_Witness ==
    /\ Returned /\ prev # << >> /\ prev[1].pc = "done"
    /\ part = 2
    /\ result[1] > prev[1].result[1]

\* C10: for a fixed grid, destination and regime, the ledger the loop ends with
\* and the cost reported are those of the run that resolves every tie one fixed
\* way, whichever entry of least cost each pop returned.
C10_TieOrderIndependent ==
    (pc \in {"extract", "done", "panic"}) =>
        LET ledger == run_loop(nodes, min_steps[1], max_steps[1],
                               SetToBag({origin_path(Coordinate(0, 0))}), << >>)
        IN  /\ explored_paths = ledger
            /\ pc = "panic" => destination_costs(ledger, destination_coords[1]) = {}
            /\ Returned => result[1] = SetMin(destination_costs(ledger, destination_coords[1]))

C10_Witness ==
    /\ Returned
    /\ input = AllOnes(3, 3)
    /\ \E p, q \in DOMAIN explored_paths :
          p # q /\ explored_paths[p] = explored_paths[q]

\* C11: when min_steps is 1 and max_steps is at least the longer side of the
\* grid, the run returns the cost of an ordinary shortest path from the
\* top-left to the bottom-right cell whose only rule is that a step does not
\* reverse the step before it.
C11_Degeneration ==
    (Ended /\ IsRectangular(input) /\ min_steps = <<1>> /\ max_steps # << >>
        /\ max_steps[1] >= LongestSide(input))
    => /\ Returned
       /\ result = <<PlainMin(GridOf(input), Coordinate(0, 0), BottomRight(input))>>

C11_Witness ==
    /\ Returned /\ min_steps = <<1>> /\ max_steps = <<3>>
    /\ IsRectangular(input)
    /\ Len(input) = 2 /\ Len(input[1]) = 3
    /\ result = <<PlainMin(GridOf(input), Coordinate(0, 0), BottomRight(input))>>
    /\ result[1] < nodes[Coordinate(0, 1)] + nodes[Coordinate(0, 2)] + nodes[Coordinate(1, 2)]
    /\ result[1] = nodes[Coordinate(1, 0)] + nodes[Coordinate(1, 1)] + nodes[Coordinate(1, 2)]

\* C12: once set_origin has seeded the frontier and both parameters are set,
\* the loop that calls explore_smaller_cost_path again and again reaches a
\* call that finds the frontier empty and returns true, on every grid.
C12_LoopTerminates ==
    (pc = "loop") ~> (pc = "extract" /\ unexplored_paths = EmptyBag)

C12_Witness ==
    /\ pc = "extract" /\ unexplored_paths = EmptyBag
    /\ min_steps # << >> /\ max_steps # << >>
    /\ Cardinality(DOMAIN explored_paths) >= 20

\* C13 (as claimed): a text with a cell that is no digit, with rows of unequal
\* length or with no cell at all is rejected before the search: for such a
\* text the run ends in an error, the frontier is never seeded and no call of
\* explore_smaller_cost_path is made on a Map that lacks cells.
C13_MalformedIsRejected ==
    ~IsRectangular(input) =>
        /\ pc \in {"try_from", "set_origin", "err"}
        /\ unexplored_paths = EmptyBag
        /\ explored_paths = << >>

\* C14: when set_origin is called with a coordinate that is no node of the
\* grid, the call returns an error and leaves the frontier and the ledger as
\* they were, and after the error no step of the search is ever taken.
C14_SetOriginErrSeedsNothing ==
    [][ /\ (pc = "set_origin" /\ Coordinate(0, 0) \notin DOMAIN nodes)
            => (pc' = "err" /\ unexplored_paths' = unexplored_paths
                            /\ explored_paths' = explored_paths)
        /\ pc = "err"
            => (pc' = "err" /\ unexplored_paths' = unexplored_paths
                            /\ explored_paths' = explored_paths) ]_vars

C14_Witness ==
    /\ pc = "err"
    /\ nodes # << >>
    /\ Coordinate(0, 0) \notin DOMAIN nodes
    /\ unexplored_paths = EmptyBag
    /\ explored_paths = << >>

\* C15: the cost the ledger records for a state is the least cumulative cost
\* of a sequence of transitions from the origin state to that state (the
\* ledger the loop ends with holds it, and an entry is never rewritten after
\* its insertion), and an entry for a recorded state left on the frontier is
\* never cheaper than the recorded cost.
C15_DijkstraInvariant ==
    /\ [](pc = "extract" =>
            LET dist == StateDist(nodes, min_steps[1], max_steps[1], Coordinate(0, 0))
            IN  \A p \in DOMAIN explored_paths :
                    p \in DOMAIN dist /\ explored_paths[p] = dist[p])
    /\ [][\A p \in DOMAIN explored_paths :
              p \in DOMAIN explored_paths' /\ explored_paths'[p] = explored_paths[p]]_vars
    /\ [](\A e \in BagToSet(unexplored_paths) :
              PathFrom(e) \in DOMAIN explored_paths => e.total_cost >= explored_paths[PathFrom(e)])

C15_Witness ==
    /\ pc = "loop"
    /\ \E e \in BagToSet(unexplored_paths) :
          /\ PathFrom(e) \in DOMAIN explored_paths
          /\ e.total_cost > explored_paths[PathFrom(e)]
          /\ explored_paths[PathFrom(e)]
                = StateDist(nodes, min_steps[1], max_steps[1], Coordinate(0, 0))[PathFrom(e)]

\* C16: a cost the ledger holds for a state never changes, and every
\* iteration of the loop either records one state the ledger did not hold, at
\* the cost of a frontier entry for it, or finds the state of the popped entry
\* in the ledger and then only removes that entry: the ledger stays as it is
\* and nothing is pushed.  So no state is expanded twice.
C16_WriteOnceLedger ==
    [][ /\ \A p \in DOMAIN explored_paths :
              p \in DOMAIN explored_paths' /\ explored_paths'[p] = explored_paths[p]
        /\ (pc = "loop" /\ pc' = "loop") =>
              \E e \in BagToSet(unexplored_paths) :
                  \/ /\ PathFrom(e) \in DOMAIN explored_paths
                     /\ explored_paths' = explored_paths
                     /\ unexplored_paths' = unexplored_paths (-) SetToBag({e})
                  \/ /\ PathFrom(e) \notin DOMAIN explored_paths
                     /\ DOMAIN explored_paths' = DOMAIN explored_paths \cup {PathFrom(e)}
                     /\ explored_paths'[PathFrom(e)] = e.total_cost ]_vars

\* the loop has ended and an entry was discarded on the way: state q was
\* expanded before state p was recorded and pushed a costlier entry for p
C16_Witness ==
    /\ pc = "extract" /\ unexplored_paths = EmptyBag
    /\ \E p, q \in DOMAIN explored_paths :
          /\ explored_paths[q] < explored_paths[p]
          /\ \E sc \in StateSteps(nodes, min_steps[1], max_steps[1], q, explored_paths[q]) :
                sc[1] = p /\ sc[2] > explored_paths[p]

\* C17: the expansion of a state other than the origin state, reached by a
\* step in direction dir, pushes no successor that goes in the direction
\* opposite to dir.
C17_ReversalBan ==
    [][ (Expanding /\ Expanded.going_towards_count > 0) =>
            \A e \in Pushed : e.going_towards # Reverse(Expanded.going_towards) ]_vars

\* a recorded state other than the origin state has been expanded and a
\* successor of it waits on the frontier
C17_Witness ==
    /\ pc = "loop"
    /\ \E p \in DOMAIN explored_paths :
          /\ p.going_towards_count > 0
          /\ Neighbour(p.coordinate, Reverse(p.going_towards)) \in DOMAIN nodes
          /\ \E sc \in StateSteps(nodes, min_steps[1], max_steps[1], p, explored_paths[p]) :
                /\ add_cost(sc[1], sc[2]) \in BagToSet(unexplored_paths)
                /\ sc[1].going_towards # p.going_towards

OriginExpanded ==
    pc = "loop" /\ DOMAIN explored_paths = {Path(Coordinate(0, 0), "South", 0)}

C20_ContinuingStraight ==
    [][ Expanding =>
            LET p == Expanded
                n == Neighbour(p.coordinate, p.going_towards)
                straight == { e \in Pushed : e.going_towards = p.going_towards }
            IN  /\ \A e \in straight :
                      /\ p.going_towards_count < max_steps[1]
                      /\ n \in DOMAIN nodes
                      /\ PathFrom(e) = Path(n, p.going_towards, p.going_towards_count + 1)
                      /\ e.total_cost = explored_paths'[p] + nodes[n]
                /\ (/\ p.going_towards_count < max_steps[1]
                    /\ n \in DOMAIN nodes
                    /\ Path(n, p.going_towards, p.going_towards_count + 1)
                          \notin DOMAIN explored_paths')
                   => straight # {} ]_vars

\* a state whose run is 2 or more has been expanded and its successor
\* straight on, one cell further with a run one longer, waits on the frontier
C20_Witness ==
    /\ pc = "loop"
    /\ \E p \in DOMAIN explored_paths :
          /\ p.going_towards_count >= 2
          /\ Neighbour(p.coordinate, p.going_towards) \in DOMAIN nodes
          /\ add_cost(Path(Neighbour(p.coordinate, p.going_towards), p.going_towards,
                            p.going_towards_count + 1),
                       explored_paths[p]
                         + nodes[Neighbour(p.coordinate, p.going_towards)])
                \in BagToSet(unexplored_paths)

\* C21: the expansion of a state (c, dir, run) pushes in a direction d that
\* is neither dir nor its opposite at most one successor, in one step of the
\* loop: the state (c + min_steps steps in d, d, min_steps) at the cost
\* recorded for the expanded state plus the costs of all the min_steps cells
\* entered.  When one of those cells is outside the grid nothing is pushed
\* for d; when all are inside and the ledger does not hold the successor, it
\* is pushed.
C21_Turning ==
    [][ Expanding =>
            LET p == Expanded
                lo == min_steps[1]
            IN  \A d \in Directions \ {p.going_towards, Reverse(p.going_towards)} :
                    LET turned == { e \in Pushed : e.going_towards = d }
                        target == Path(Coordinate(p.coordinate.x + lo * Delta(d)[1],
                                                  p.coordinate.y + lo * Delta(d)[2]), d, lo)
                    IN  /\ \A e \in turned :
                              /\ LineInGrid(nodes, p.coordinate, d, lo)
                              /\ PathFrom(e) = target
                              /\ e.total_cost
                                    = explored_paths'[p] + LineCost(nodes, p.coordinate, d, lo)
                        /\ ~LineInGrid(nodes, p.coordinate, d, lo) => turned = {}
                        /\ (LineInGrid(nodes, p.coordinate, d, lo)
                               /\ target \notin DOMAIN explored_paths')
                           => turned # {} ]_vars

\* under the 4-to-10 regime a state other than the origin state has been
\* expanded and the successor of a turn, 4 cells away with a run of 4 and
\* charged for all 4 cells, waits on the frontier
C21_Witness ==
    /\ pc = "loop" /\ min_steps = <<4>>
    /\ \E p \in DOMAIN explored_paths :
          /\ p.going_towards_count > 0
          /\ \E d \in Directions \ {p.going_towards, Reverse(p.going_towards)} :
                /\ LineInGrid(nodes, p.coordinate, d, 4)
                /\ LineCost(nodes, p.coordinate, d, 4) > 4
                /\ add_cost(Path(Coordinate(p.coordinate.x + 4 * Delta(d)[1],
                                             p.coordinate.y + 4 * Delta(d)[2]), d, 4),
                             explored_paths[p] + LineCost(nodes, p.coordinate, d, 4))
                      \in BagToSet(unexplored_paths)

\* C22: in every state of the search, the run-length of every frontier entry
\* and of every ledger entry is between 0 and max_steps; no state with a
\* longer run reaches the ledger.
C22_RunWithinMax ==
    /\ \A e \in BagToSet(unexplored_paths) :
          /\ e.going_towards_count >= 0
          /\ max_steps # << >> => e.going_towards_count <= max_steps[1]
          /\ max_steps = << >> => e.going_towards_count = 0
    /\ \A p \in DOMAIN explored_paths :
          /\ p.going_towards_count >= 0
          /\ max_steps # << >> => p.going_towards_count <= max_steps[1]
          /\ max_steps = << >> => p.going_towards_count = 0

\* the ledger holds a state whose run is max_steps long and whose next cell
\* straight on is in the grid, and neither frontier nor ledger holds the
\* state one step further
C22_Witness ==
    /\ pc = "extract"
    /\ \E p \in DOMAIN explored_paths :
          /\ p.going_towards_count = max_steps[1]
          /\ Neighbour(p.coordinate, p.going_towards) \in DOMAIN nodes
          /\ Path(Neighbour(p.coordinate, p.going_towards), p.going_towards,
                   p.going_towards_count + 1) \notin DOMAIN explored_paths

\* C23: in every state of the search, the coordinate of every frontier entry
\* and of every ledger entry is a cell of the grid; in particular no entry
\* has the coordinate usize::MAX that a step North from row 0 or West from
\* column 0 produces.
C23_CoordinatesInGrid ==
    /\ \A e \in BagToSet(unexplored_paths) :
          /\ e.coordinate \in DOMAIN nodes
          /\ e.coordinate.x # USIZE_MAX /\ e.coordinate.y # USIZE_MAX
    /\ \A p \in DOMAIN explored_paths :
          /\ p.coordinate \in DOMAIN nodes
          /\ p.coordinate.x # USIZE_MAX /\ p.coordinate.y # USIZE_MAX

\* the loop has ended, and it expanded a state on row 0 reached going East
\* and a state on column 0 reached going South: the turns North and West
\* from them stepped to usize::MAX
C23_Witness ==
    /\ pc = "extract"
    /\ \E p, q \in DOMAIN explored_paths :
          /\ p.coordinate.x = 0 /\ p.going_towards = "East"
          /\ single_step(p.coordinate, "North").x = USIZE_MAX
          /\ q.coordinate.y = 0 /\ q.going_towards = "South" /\ q.going_towards_count > 0
          /\ single_step(q.coordinate, "West").y = USIZE_MAX

\* the cell k steps from c in direction d
Ahead(c, d, k) == Coordinate(c.x + k * Delta(d)[1], c.y + k * Delta(d)[2])

\* the cell where the run that ends in state s began
RunStart(s) == Ahead(s.coordinate, s.going_towards, 0 - s.going_towards_count)

\* the states held: those of the frontier entries and those of the ledger
Held == { PathFrom(e) : e \in BagToSet(unexplored_paths) } \cup DOMAIN explored_paths

\* C24: every state (c, dir, run) held in the frontier or the ledger, the
\* origin state apart, was generated along a path that ends with exactly run
\* unit steps in direction dir arriving at c: the run cells are cells of the
\* grid, the states of the run before c were expanded, and the run began
\* either at the origin state with no step before it or at an expanded state
\* that was reached in a direction other than dir.
C24_RunLengthIsRun ==
    \A s \in Held :
        s.going_towards_count > 0 =>
            LET b == RunStart(s)
                d == s.going_towards
                run == s.going_towards_count
            IN  /\ LineInGrid(nodes, b, d, run)
                /\ \/ /\ d = "South" /\ b = Coordinate(0, 0)
                      /\ \A k \in 0..run - 1 : Path(Ahead(b, d, k), d, k) \in DOMAIN explored_paths
                   \/ /\ run >= min_steps[1]
                      /\ \E p \in DOMAIN explored_paths :
                            p.coordinate = b /\ p.going_towards \notin {d, Reverse(d)}
                      /\ \A k \in min_steps[1]..run - 1 :
                            Path(Ahead(b, d, k), d, k) \in DOMAIN explored_paths

\* the ledger holds a state off the first column whose run, begun by a turn
\* of 4 steps, was then continued straight on
C24_Witness ==
    /\ pc = "extract" /\ min_steps = <<4>>
    /\ \E s \in DOMAIN explored_paths :
          /\ s.going_towards_count > 4
          /\ s.coordinate.y > 0
          /\ s.going_towards = "South"

\* C25: when the popped entry names a state the ledger lacks and its cost
\* is k, every successor the step pushes is the target of a legal transition
\* out of that state, is not in the ledger, and carries the cost k plus the
\* cost of the transition.
C25_PushedCost ==
    [][ Expanding =>
            \A e \in Pushed :
                /\ PathFrom(e) \notin DOMAIN explored_paths'
                /\ <<PathFrom(e), e.total_cost>>
                      \in StateSteps(nodes, min_steps[1], max_steps[1],
                                     Expanded, explored_paths'[Expanded]) ]_vars

\* a state recorded at a cost k > 0 has been expanded: one of its successors
\* waits on the frontier at k plus the cost of a transition of several cells,
\* and another target of a legal transition out of it is in the ledger
C25_Witness ==
    /\ pc = "loop" /\ min_steps = <<4>>
    /\ \E p \in DOMAIN explored_paths :
          /\ explored_paths[p] > 0
          /\ \E sc, sd \in StateSteps(nodes, min_steps[1], max_steps[1], p, explored_paths[p]) :
                /\ add_cost(sc[1], sc[2]) \in BagToSet(unexplored_paths)
                /\ sc[2] > explored_paths[p] + 1
                /\ sd[1] \in DOMAIN explored_paths

\* the loop has been left: explore_smaller_cost_path has returned true
Terminated == pc \in {"extract", "done", "panic"}

\* C26: a call of explore_smaller_cost_path returns true exactly when it
\* finds the frontier empty, and then leaves frontier and ledger as they
\* were; a call that finds an entry returns false.  Once a call has returned
\* true the frontier stays empty and the ledger stays as it is, so a later
\* call would return true again.
C26_TerminatedIffEmpty ==
    [][ /\ (pc = "loop" /\ pc' # "loop") =>
              /\ unexplored_paths = EmptyBag
              /\ pc' = "extract"
              /\ unexplored_paths' = unexplored_paths
              /\ explored_paths' = explored_paths
        /\ (pc = "loop" /\ unexplored_paths = EmptyBag) => pc' = "extract"
        /\ Terminated =>
              /\ Terminated'
              /\ unexplored_paths = EmptyBag
              /\ unexplored_paths' = EmptyBag
              /\ explored_paths' = explored_paths ]_vars

\* the run has returned after the loop ended on an empty frontier that had
\* held entries: the ledger holds states beyond the origin state
C26_Witness ==
    /\ pc = "done"
    /\ unexplored_paths = EmptyBag
    /\ Cardinality(DOMAIN explored_paths) >= 5

\* the entry a step of the loop pops
Popped ==
    CHOOSE e \in BagToSet(unexplored_paths) :
        CopiesIn(e, unexplored_paths') < CopiesIn(e, unexplored_paths)

\* C27: the costs of the entries popped by successive calls never decrease
\* (no entry the frontier holds after a pop, pushed ones included, costs less
\* than the entry popped), and every frontier entry costs at least as much as
\* every state the ledger holds.
C27_PopsNonDecreasing ==
    /\ [][ (pc = "loop" /\ pc' = "loop") =>
              \A f \in BagToSet(unexplored_paths') : f.total_cost >= Popped.total_cost ]_vars
    /\ [](\A e \in BagToSet(unexplored_paths) :
              \A p \in DOMAIN explored_paths : e.total_cost >= explored_paths[p])

\* the ledger holds states of three different costs and the frontier an entry
\* that costs more than each of them
C27_Witness ==
    /\ pc = "loop"
    /\ Cardinality({ explored_paths[p] : p \in DOMAIN explored_paths }) >= 3
    /\ \E e \in BagToSet(unexplored_paths) :
          \A p \in DOMAIN explored_paths : e.total_cost > explored_paths[p]

\* C28: in every state of the search, a ledger state whose run is shorter
\* than min_steps goes South and lies run steps South of the origin, on the
\* line the seeded origin state starts; every other ledger state has a run of
\* min_steps or more.
C28_ShortRunsOnSouthLine ==
    \A p \in DOMAIN explored_paths :
        (min_steps # << >> /\ p.going_towards_count < min_steps[1]) =>
            /\ p.going_towards = "South"
            /\ p.coordinate = Ahead(Coordinate(0, 0), "South", p.going_towards_count)

\* under the 4-to-10 regime the ledger holds a state one to three steps
\* South of the origin and the state a turn East out of it reached
C28_Witness ==
    /\ pc = "extract" /\ min_steps = <<4>>
    /\ \E p, q \in DOMAIN explored_paths :
          /\ p.going_towards_count \in 1..3
          /\ p.going_towards = "South"
          /\ q = Path(Ahead(p.coordinate, "East", 4), "East", 4)
          /\ explored_paths[q]
                = explored_paths[p] + LineCost(nodes, p.coordinate, "East", 4)

\* the text of a rectangular grid with rows and columns exchanged
Transpose(value) ==
    [j \in 1..Len(value[1]) |-> [i \in 1..Len(value) |-> value[i][j]]]

\* C29 (as claimed): under each of the two regimes the run on a rectangular
\* grid and the run on the transposed grid end alike: both return the same
\* cost, or neither finds the bottom-right cell.
C29_TranspositionSymmetry ==
    (pc \in {"done", "panic"} /\ IsRectangular(input)) =>
        LET ledger == run_loop(try_from(Transpose(input)), min_steps[1], max_steps[1],
                               SetToBag({origin_path(Coordinate(0, 0))}), << >>)
            costs == destination_costs(ledger, BottomRight(Transpose(input)))
        IN  /\ pc = "done" => (costs # {} /\ result[1] = SetMin(costs))
            /\ pc = "panic" => costs = {}

\* C30: when explore_smaller_cost_path pops an entry whose state the ledger
\* lacks while min_steps or max_steps is unset, the call returns an error and
\* pushes nothing, yet the entry is gone from the frontier and its state is in
\* the ledger at the entry cost: the Map is not as it was before the call.
C30_UnsetStepsErrorAfterInsert ==
    [][ (/\ pc = "loop"
         /\ min_steps = << >> \/ max_steps = << >>
         /\ \E e \in PopCandidates(unexplored_paths) : PathFrom(e) \notin DOMAIN explored_paths)
        => /\ pc' = "unset"
           /\ \E e \in BagToSet(unexplored_paths) :
                 /\ PathFrom(e) \notin DOMAIN explored_paths
                 /\ unexplored_paths' = unexplored_paths (-) SetToBag({e})
                 /\ DOMAIN explored_paths' = DOMAIN explored_paths \cup {PathFrom(e)}
                 /\ explored_paths'[PathFrom(e)] = e.total_cost
                 /\ \A p \in DOMAIN explored_paths : explored_paths'[p] = explored_paths[p] ]_vars

\* the call has returned the error with min_steps set and max_steps unset:
\* the frontier is empty and the ledger holds the origin state
C30_Witness ==
    /\ pc = "unset"
    /\ min_steps # << >> /\ max_steps = << >>
    /\ unexplored_paths = EmptyBag
    /\ DOMAIN explored_paths = {Path(Coordinate(0, 0), "South", 0)}
    /\ Cardinality(DOMAIN nodes) > 1

====
